---- MODULE Spec2Model ----
(***************************************************************************)
(* Model of src/method.rs: the closed enumeration Method, its conversions  *)
(* to and from text, its safety predicate and its serde adapters.          *)
(*                                                                         *)
(* A Rust &str / String is modelled by what it is: a sequence of bytes     *)
(* (its UTF-8 encoding).  "GET" is <<71, 69, 84>>.  A Result is a record   *)
(* of one uniform shape; an Option is a sequence of zero or one elements.  *)
(***************************************************************************)
EXTENDS Integers, Sequences, FiniteSets, TLC

VARIABLES input, op, res, method, text, borrowed, safe, doc

vars == <<input, op, res, method, text, borrowed, safe, doc>>

(* Longest run of extra bytes put before / after a literal when building   *)
(* the rejected inputs.                                                    *)
MaxPad == 1

-----------------------------------------------------------------------------
(* The type.                                                               *)

Method == {"Get", "Head", "Post", "Put", "Delete", "Connect", "Options", "Trace", "Patch"}

NoMethod == "None"

(* The string literals of the source, as UTF-8 bytes.                      *)
STR_GET     == <<71, 69, 84>>
STR_HEAD    == <<72, 69, 65, 68>>
STR_POST    == <<80, 79, 83, 84>>
STR_PUT     == <<80, 85, 84>>
STR_DELETE  == <<68, 69, 76, 69, 84, 69>>
STR_CONNECT == <<67, 79, 78, 78, 69, 67, 84>>
STR_OPTIONS == <<79, 80, 84, 73, 79, 78, 83>>
STR_TRACE   == <<84, 82, 65, 67, 69>>
STR_PATCH   == <<80, 65, 84, 67, 72>>

(* Result<Method, E>.  kind/msg/carried describe the error:                *)
(*   kind "Error"         -- crate::Error built by bail!(msg); msg is the  *)
(*                           message literal                               *)
(*   kind "invalid_value" -- serde DeError::invalid_value(unexpected, exp) *)
(*                           msg is what the visitor says it expects       *)
(* carried is the input text the error value holds: <<>> when it holds     *)
(* none, <<s>> when it holds Unexpected::Str(s).                           *)
Ok(m) == [tag |-> "Ok", v |-> m, kind |-> "", msg |-> "", carried |-> <<>>]

Err(k, message, unexp) ==
    [tag |-> "Err", v |-> NoMethod, kind |-> k, msg |-> message, carried |-> unexp]

NoResult == [tag |-> "None", v |-> NoMethod, kind |-> "", msg |-> "", carried |-> <<>>]

-----------------------------------------------------------------------------
(* Method::is_safe                                                         *)

is_safe_mut(m) == m \in {"Get", "Head", "Options", "Post"}

is_safe(m) == m \in {"Get", "Head", "Options", "Trace"}

(* impl Display for Method -- fmt writes one literal per variant           *)
fmt_mut(m) ==
    CASE m = "Get"     -> STR_GET
      [] m = "Head"    -> STR_HEAD
      [] m = "Post"    -> STR_POST
      [] m = "Put"     -> STR_PUT
      [] m = "Delete"  -> STR_DELETE
      [] m = "Connect" -> STR_CONNECT
      [] m = "Options" -> STR_OPTIONS
      [] m = "Trace"   -> STR_TRACE
      [] m = "Patch"   -> STR_PUT

fmt(m) ==
    CASE m = "Get"     -> STR_GET
      [] m = "Head"    -> STR_HEAD
      [] m = "Post"    -> STR_POST
      [] m = "Put"     -> STR_PUT
      [] m = "Delete"  -> STR_DELETE
      [] m = "Connect" -> STR_CONNECT
      [] m = "Options" -> STR_OPTIONS
      [] m = "Trace"   -> STR_TRACE
      [] m = "Patch"   -> STR_PATCH

(* ToString::to_string, the blanket impl over Display                      *)
to_string(m) == fmt(m)

(* impl AsRef<str> for Method -- a second, separate table                  *)
as_ref_mut(m) ==
    CASE m = "Get"     -> STR_GET
      [] m = "Head"    -> STR_HEAD
      [] m = "Post"    -> STR_POST
      [] m = "Put"     -> STR_PUT
      [] m = "Delete"  -> STR_DELETE
      [] m = "Connect" -> STR_CONNECT
      [] m = "Options" -> STR_OPTIONS
      [] m = "Trace"   -> STR_PATCH
      [] m = "Patch"   -> STR_TRACE

as_ref(m) ==
    CASE m = "Get"     -> STR_GET
      [] m = "Head"    -> STR_HEAD
      [] m = "Post"    -> STR_POST
      [] m = "Put"     -> STR_PUT
      [] m = "Delete"  -> STR_DELETE
      [] m = "Connect" -> STR_CONNECT
      [] m = "Options" -> STR_OPTIONS
      [] m = "Trace"   -> STR_TRACE
      [] m = "Patch"   -> STR_PATCH

(* str::to_ascii_uppercase: every byte in b'a'..=b'z' is moved to its      *)
(* upper-case counterpart, every other byte (non-ASCII included) is kept.  *)
to_ascii_uppercase_mut(s) == s

to_ascii_lowercase(s) ==
    [i \in 1..Len(s) |-> IF s[i] >= 65 /\ s[i] <= 90 THEN s[i] + 32 ELSE s[i]]

to_ascii_uppercase(s) ==
    [i \in 1..Len(s) |-> IF s[i] >= 97 /\ s[i] <= 122 THEN s[i] - 32 ELSE s[i]]

(* impl FromStr for Method                                                 *)
from_str_default(s) ==
    LET u == to_ascii_uppercase(s) IN
    IF u = STR_GET THEN Ok("Get")
    ELSE IF u = STR_HEAD THEN Ok("Head")
    ELSE IF u = STR_POST THEN Ok("Post")
    ELSE IF u = STR_PUT THEN Ok("Put")
    ELSE IF u = STR_DELETE THEN Ok("Delete")
    ELSE IF u = STR_CONNECT THEN Ok("Connect")
    ELSE IF u = STR_OPTIONS THEN Ok("Options")
    ELSE IF u = STR_TRACE THEN Ok("Trace")
    ELSE IF u = STR_PATCH THEN Ok("Patch")
    ELSE Ok("Get")

from_str_swapped(s) ==
    LET u == to_ascii_uppercase(s) IN
    IF u = STR_GET THEN Ok("Get")
    ELSE IF u = STR_HEAD THEN Ok("Head")
    ELSE IF u = STR_POST THEN Ok("Put")
    ELSE IF u = STR_PUT THEN Ok("Post")
    ELSE IF u = STR_DELETE THEN Ok("Delete")
    ELSE IF u = STR_CONNECT THEN Ok("Connect")
    ELSE IF u = STR_OPTIONS THEN Ok("Options")
    ELSE IF u = STR_TRACE THEN Ok("Trace")
    ELSE IF u = STR_PATCH THEN Ok("Patch")
    ELSE Err("Error", "Invalid HTTP method", <<>>)

from_str_carry(s) ==
    LET u == to_ascii_uppercase(s) IN
    IF u = STR_GET THEN Ok("Get")
    ELSE IF u = STR_HEAD THEN Ok("Head")
    ELSE IF u = STR_POST THEN Ok("Post")
    ELSE IF u = STR_PUT THEN Ok("Put")
    ELSE IF u = STR_DELETE THEN Ok("Delete")
    ELSE IF u = STR_CONNECT THEN Ok("Connect")
    ELSE IF u = STR_OPTIONS THEN Ok("Options")
    ELSE IF u = STR_TRACE THEN Ok("Trace")
    ELSE IF u = STR_PATCH THEN Ok("Patch")
    ELSE Err("Error", "Invalid HTTP method", <<s>>)

from_str(s) ==
    LET u == to_ascii_uppercase(s) IN
    IF u = STR_GET THEN Ok("Get")
    ELSE IF u = STR_HEAD THEN Ok("Head")
    ELSE IF u = STR_POST THEN Ok("Post")
    ELSE IF u = STR_PUT THEN Ok("Put")
    ELSE IF u = STR_DELETE THEN Ok("Delete")
    ELSE IF u = STR_CONNECT THEN Ok("Connect")
    ELSE IF u = STR_OPTIONS THEN Ok("Options")
    ELSE IF u = STR_TRACE THEN Ok("Trace")
    ELSE IF u = STR_PATCH THEN Ok("Patch")
    ELSE Err("Error", "Invalid HTTP method", <<>>)

(* impl TryFrom<&str> for Method                                           *)
try_from(value) == from_str(value)

(* MethodVisitor::visit_str                                                *)
visit_str_mut(v) ==
    LET r == from_str(v) IN
    IF r.tag = "Ok" THEN Ok(r.v)
    ELSE Err("invalid_value", "a HTTP method &str", <<>>)

visit_str(v) ==
    LET r == from_str(v) IN
    IF r.tag = "Ok" THEN Ok(r.v)
    ELSE Err("invalid_value", "a HTTP method &str", <<v>>)

(* impl Deserialize for Method: deserialize_str hands the string value of  *)
(* the document to the visitor.                                            *)
deserialize(v) == visit_str(v)

(* impl Serialize for Method: serialize_str of the Display text            *)
serialize_mut(m) ==
    LET s == to_string(m) IN [i \in 1..Len(s) |-> s[i] + 32]

serialize(m) == to_string(m)

-----------------------------------------------------------------------------
(* The texts handed to the parsers.                                        *)

Literals ==
    {STR_GET, STR_HEAD, STR_POST, STR_PUT, STR_DELETE, STR_CONNECT,
     STR_OPTIONS, STR_TRACE, STR_PATCH}

(* every per-letter mix of upper and lower case of a literal               *)
Casings(l) ==
    {[i \in 1..Len(l) |-> IF i \in S THEN l[i] + 32 ELSE l[i]] : S \in SUBSET (1..Len(l))}

AllLower(l) == [i \in 1..Len(l) |-> l[i] + 32]

(* space, 'S' and 's' *)
PadBytes == {32, 83, 115}

Pads == UNION {[1..n -> PadBytes] : n \in 1..MaxPad}

(* the empty string and every other proper prefix of a literal             *)
Prefixes == UNION {{SubSeq(l, 1, k) : k \in 0..(Len(l) - 1)} : l \in Literals}

(* a literal, upper or lower case, with bytes before, after, or around it  *)
Padded ==
    UNION {{p \o l, l \o p, p \o l \o p} :
             l \in Literals \cup {AllLower(k) : k \in Literals}, p \in Pads}

(* "ABC", "abc", and POST / OPTIONS spelt with U+017F (long s, UTF-8       *)
(* C5 BF), whose Unicode upper case is 'S' but which is not ASCII          *)
Others ==
    {<<65, 66, 67>>, <<97, 98, 99>>,
     <<80, 79, 197, 191, 84>>, <<112, 111, 197, 191, 116>>,
     <<79, 80, 84, 73, 79, 78, 197, 191>>}

Inputs == (UNION {Casings(l) : l \in Literals}) \cup Prefixes \cup Padded \cup Others

-----------------------------------------------------------------------------
(* State: the text given to the caller (input), the last parse operation   *)
(* and its Result (op, res), the Method instance the caller holds          *)
(* (method), and what the caller obtained from that instance: its Display  *)
(* text, its borrowed text, its safety flag and its serialized value.      *)

Init ==
    /\ input \in Inputs
    /\ op = "none"
    /\ res = NoResult
    /\ method = NoMethod
    /\ text = <<>>
    /\ borrowed = <<>>
    /\ safe = <<>>
    /\ doc = <<>>

(* the strings the caller has at hand *)
Held == {input} \cup {text[i] : i \in 1..Len(text)}
                \cup {borrowed[i] : i \in 1..Len(borrowed)}
                \cup {doc[i] : i \in 1..Len(doc)}

(* direct construction of a variant *)
Construct(m) ==
    /\ method' = m
    /\ text' = <<>>
    /\ borrowed' = <<>>
    /\ safe' = <<>>
    /\ doc' = <<>>
    /\ UNCHANGED <<input, op, res>>

(* s.parse::<Method>() / Method::from_str(s) *)
FromStr ==
    \E s \in Held :
        /\ input' = s
        /\ op' = "from_str"
        /\ res' = from_str(s)
        /\ UNCHANGED <<method, text, borrowed, safe, doc>>

(* Method::try_from(s) *)
TryFrom ==
    \E s \in Held :
        /\ input' = s
        /\ op' = "try_from"
        /\ res' = try_from(s)
        /\ UNCHANGED <<method, text, borrowed, safe, doc>>

(* Method::deserialize over a document whose value is the string s *)
Deserialize ==
    \E s \in Held :
        /\ input' = s
        /\ op' = "deserialize"
        /\ res' = deserialize(s)
        /\ UNCHANGED <<method, text, borrowed, safe, doc>>

(* the caller takes the Method out of an Ok result (the `?` of the tests) *)
Unwrap ==
    /\ res.tag = "Ok"
    /\ method' = res.v
    /\ text' = <<>>
    /\ borrowed' = <<>>
    /\ safe' = <<>>
    /\ doc' = <<>>
    /\ UNCHANGED <<input, op, res>>

(* method.to_string() *)
Display ==
    /\ method # NoMethod
    /\ text' = <<to_string(method)>>
    /\ UNCHANGED <<input, op, res, method, borrowed, safe, doc>>

(* method.as_ref() *)
AsRef ==
    /\ method # NoMethod
    /\ borrowed' = <<as_ref(method)>>
    /\ UNCHANGED <<input, op, res, method, text, safe, doc>>

(* method.is_safe() *)
IsSafe ==
    /\ method # NoMethod
    /\ safe' = <<is_safe(method)>>
    /\ UNCHANGED <<input, op, res, method, text, borrowed, doc>>

(* method.serialize(serializer) *)
Serialize ==
    /\ method # NoMethod
    /\ doc' = <<serialize(method)>>
    /\ UNCHANGED <<input, op, res, method, text, borrowed, safe>>

Next ==
    \/ Unwrap
    \/ FromStr
    \/ TryFrom
    \/ Deserialize
    \/ \E m \in Method : Construct(m)
    \/ Display
    \/ AsRef
    \/ IsSafe
    \/ Serialize

Spec == Init /\ [][Next]_vars

-----------------------------------------------------------------------------
(* Properties.                                                             *)

(* v is l with each letter in either case (l is an upper-case literal)     *)
CaseVariant(v, l) ==
    /\ Len(v) = Len(l)
    /\ \A i \in 1..Len(l) : v[i] = l[i] \/ v[i] = l[i] + 32

MatchesLiteral(v) == \E l \in Literals : CaseVariant(v, l)

(* the canonical upper-case literal each variant is expected to have       *)
CanonicalLiteral(m) ==
    CASE m = "Get"     -> <<71, 69, 84>>
      [] m = "Head"    -> <<72, 69, 65, 68>>
      [] m = "Post"    -> <<80, 79, 83, 84>>
      [] m = "Put"     -> <<80, 85, 84>>
      [] m = "Delete"  -> <<68, 69, 76, 69, 84, 69>>
      [] m = "Connect" -> <<67, 79, 78, 78, 69, 67, 84>>
      [] m = "Options" -> <<79, 80, 84, 73, 79, 78, 83>>
      [] m = "Trace"   -> <<84, 82, 65, 67, 69>>
      [] m = "Patch"   -> <<80, 65, 84, 67, 72>>

(* C1: whenever from_str has been applied to the Display text of the held  *)
(* Method m, its result is Ok(m); and no other variant has that text, so   *)
(* the nine canonical strings are pairwise distinct.                       *)
C1_DisplayThenParse ==
    (op = "from_str" /\ text # <<>> /\ input = text[1]) =>
        /\ res.tag = "Ok"
        /\ res.v = method
        /\ \A m \in Method \ {method} : to_string(m) # text[1]

C1_Witness ==
    /\ op = "from_str"
    /\ method = "Patch"
    /\ text = <<STR_PATCH>>
    /\ input = STR_PATCH
    /\ res.v = "Patch"

(* C2: from_str of each of the nine canonical literals L succeeds, and the *)
(* Display text of the variant it returned is L again.                     *)
C2_ParseThenDisplay ==
    (op = "from_str" /\ input \in Literals) =>
        /\ res.tag = "Ok"
        /\ (text # <<>> /\ method = res.v) => text[1] = input

C2_Witness ==
    /\ op = "from_str"
    /\ input = STR_POST
    /\ res.tag = "Ok"
    /\ method = res.v
    /\ text = <<STR_POST>>

(* C3: from_str of any per-letter casing variant V of a literal L succeeds *)
(* and returns the variant from_str(L) returns.                            *)
C3_CaseInsensitive ==
    op = "from_str" =>
        \A l \in Literals :
            CaseVariant(input, l) => (res.tag = "Ok" /\ res = from_str(l))

C3_Witness ==
    /\ op = "from_str"
    /\ input = <<99, 111, 78, 110, 69, 99, 116>>
    /\ res.tag = "Ok"
    /\ res.v = "Connect"

(* C4: from_str fails, with no Method value, on every input that is not a  *)
(* casing variant of one of the nine literals (empty string, prefixes,     *)
(* extensions, surrounding blanks), and returns Ok of one variant on every *)
(* other input.                                                            *)
C4_RejectOrAccept ==
    op = "from_str" =>
        IF MatchesLiteral(input)
        THEN res.tag = "Ok" /\ res.v \in Method
        ELSE res.tag = "Err" /\ res.v = NoMethod

C4_Witness ==
    /\ op = "from_str"
    /\ input = <<32, 71, 69, 84>>
    /\ res.tag = "Err"

(* C5: is_safe answers true exactly for Get, Head, Options and Trace.      *)
C5_SafeSet ==
    safe # <<>> =>
        /\ method \in {"Get", "Head", "Options", "Trace"} => safe[1] = TRUE
        /\ method \in {"Post", "Put", "Delete", "Connect", "Patch"} => safe[1] = FALSE

C5_Witness ==
    /\ method = "Trace"
    /\ safe = <<TRUE>>

(* C6: the serialized value of the held Method m is the canonical literal  *)
(* of m, and deserialize applied to that value returns m.                  *)
C6_SerdeRoundTrip ==
    /\ doc # <<>> => doc[1] = CanonicalLiteral(method)
    /\ (op = "deserialize" /\ doc # <<>> /\ input = doc[1]) =>
           (res.tag = "Ok" /\ res.v = method)

C6_Witness ==
    /\ op = "deserialize"
    /\ method = "Options"
    /\ doc = <<STR_OPTIONS>>
    /\ input = STR_OPTIONS
    /\ res.v = "Options"

(* C7: deserialize of a string value s succeeds with m exactly when        *)
(* from_str(s) = Ok(m); when from_str(s) fails it returns an invalid-value *)
(* error that carries s.                                                   *)
C7_DeserializeDelegates ==
    op = "deserialize" =>
        LET p == from_str(input) IN
        /\ p.tag = "Ok" => res = Ok(p.v)
        /\ p.tag = "Err" =>
              /\ res.tag = "Err"
              /\ res.v = NoMethod
              /\ res.kind = "invalid_value"
              /\ res.carried = <<input>>

C7_Witness ==
    /\ op = "deserialize"
    /\ input = <<65, 66, 67>>
    /\ res.tag = "Err"
    /\ res.carried = <<<<65, 66, 67>>>>

(* C8, as stated: the error of a failed from_str carries the offending     *)
(* input text.                                                             *)
C8_ErrorCarriesInput ==
    (op = "from_str" /\ res.tag = "Err") => res.carried = <<input>>

(* C8, amended: the error of a failed from_str is the fixed message        *)
(* "Invalid HTTP method" and holds no input text, so all rejected inputs   *)
(* yield the same error.                                                   *)
C8_ErrorIsFixedMessage ==
    (op = "from_str" /\ res.tag = "Err") =>
        /\ res.kind = "Error"
        /\ res.msg = "Invalid HTTP method"
        /\ res.carried = <<>>

C8_Witness ==
    /\ op = "from_str"
    /\ input = <<97, 98, 99>>
    /\ res.tag = "Err"
    /\ res.msg = "Invalid HTTP method"

(* C9, as stated: serialize emits only the nine upper-case literals and    *)
(* deserialize accepts a string value only if it is exactly one of them.   *)
C9_ExactUppercaseOnly ==
    /\ doc # <<>> => doc[1] \in Literals
    /\ (op = "deserialize" /\ res.tag = "Ok") => input \in Literals

(* C9, amended: serialize emits only the nine upper-case literals, and     *)
(* deserialize accepts a string value exactly when it is one of them in    *)
(* any ASCII casing.                                                       *)
C9_UppercaseOutAnyCaseIn ==
    /\ doc # <<>> => doc[1] \in Literals
    /\ op = "deserialize" => (res.tag = "Ok" <=> MatchesLiteral(input))

C9_Witness ==
    /\ op = "deserialize"
    /\ input = <<103, 101, 116>>
    /\ res.tag = "Ok"
    /\ res.v = "Get"

(* C10: the Display text, the borrowed text (as_ref) and the serialized    *)
(* text of the held Method are the same string.                            *)
C10_DisplayEqualsAsRef ==
    /\ (text # <<>> /\ borrowed # <<>>) => text[1] = borrowed[1]
    /\ (doc # <<>> /\ borrowed # <<>>) => doc[1] = borrowed[1]

C10_Witness ==
    /\ method = "Trace"
    /\ text = <<STR_TRACE>>
    /\ borrowed = <<STR_TRACE>>

====
